---- MODULE Spec2Model ----
(***************************************************************************)
(* Model of hooks/secondary_publish_tk-photoshop.py: PublishHook.execute   *)
(* (the dispatch loop over the secondary tasks) and                        *)
(* PublishHook.__send_to_review (lookup, JPEG export, Version creation,    *)
(* upload, temp-file cleanup).  The external collaborators (tank.util,     *)
(* photoshop, shotgun, os.remove) either succeed or raise; every outcome   *)
(* is a nondeterministic choice of the environment.  One action covers the *)
(* code that runs up to and including one external call.                   *)
(***************************************************************************)
EXTENDS Integers, Sequences, FiniteSets, TLC

\* ------------------------------------------------------------------ bounds
MaxTasks == 3

\* ------------------------------------------------------------- input sets
OutputNames == {"send_to_review", "export_layers"}
Paths == {"/proj/a.psd", "/proj/b.psd"}
EntityTypes == {"PublishedFile", "TankPublishedFile"}

\* jpeg_save_options.quality
JPEG_QUALITY == 12

\* self.parent.context, and the comment / sg_task arguments of execute
ctx == [user |-> "ctx.user", entity |-> "ctx.entity", project |-> "ctx.project"]
comment == "comment"
sg_task == "sg_task"

VARIABLES
    tasks,                \* the tasks argument of execute
    primary_publish_path, \* the primary_publish_path argument of execute
    entity_type,          \* what tank.util.get_published_file_entity_type reports
    pc,                   \* position of the control flow
    idx,                  \* position of the for loop in tasks (1-based)
    errors,               \* execute: errors[i] is the errors list of the iteration on task i
    results,              \* execute: results
    ret,                  \* <<>> until execute returns, then <<the returned list>>
    exc,                  \* the exception in flight ("none" when there is none)
    primary_publish,      \* __send_to_review: <<>> or <<the record found>>
    jpeg_path,            \* __send_to_review: <<>> or the temp file path
    version,              \* __send_to_review: <<>> or <<the record create returned>>
    uuids,                \* number of uuid4 values drawn so far
    disk,                 \* the temp files that exist on disk
    versions,             \* Version records in Shotgun, in creation order
    uploads,              \* uploads received by Shotgun, in order
    calls,                \* the external calls made so far, in order
    progress              \* progress[i]: percentages reported while handling task i

vars == <<tasks, primary_publish_path, entity_type, pc, idx, errors, results, ret, exc,
          primary_publish, jpeg_path, version, uuids, disk, versions, uploads,
          calls, progress>>

\* --------------------------------------------------------------- helpers

\* task dictionaries; item stands for the identity of the scanned item
Task(i, name) == [item |-> i, output |-> [name |-> name]]

TaskLists ==
    UNION { { [i \in 1..n |-> Task(i, f[i])] : f \in [1..n -> OutputNames] }
            : n \in 0..MaxTasks }

\* faulty variant: the message is not formatted with the path
NotFoundMessage_Unformatted(path) == "Failed to find publish entity for %s"

\* "Failed to find publish entity for %s" % primary_publish_path
NotFoundMessage(path) == "Failed to find publish entity for " \o path

\* errors.append("Don't know how to publish this item!")
UnknownOutputMessage == "Don't know how to publish this item!"

\* the PublishedFile record Shotgun holds for a path (fields id, type, code)
PublishRecord(path) ==
    [id |-> IF path = "/proj/a.psd" THEN 101 ELSE 102,
     type |-> entity_type,
     code |-> "code:" \o path]

\* found_publishes.get(primary_publish_path)
DictGet(dict, key) == IF key \in DOMAIN dict THEN <<dict[key]>> ELSE <<>>

\* os.path.join(tempfile.gettempdir(), "%s_sgtk.jpg" % uuid.uuid4().hex)
JpegPath(u) == <<"tempdir", u, "_sgtk.jpg">>

\* progress_cb(pct, ...) while task i is handled
Report(prog, i, pcts) == [prog EXCEPT ![i] = @ \o pcts]

\* one external call in the log: made while handling task idx, with its
\* argument, its outcome and (in val) <<the value it returned>>, if any
Call(op, arg, out, val) ==
    [task |-> idx, op |-> op, arg |-> arg, out |-> out, val |-> val]

\* faulty variant: sg_path_to_frames takes the code of the publish instead of its path
VersionData_WrongPath(path, publish) ==
    LET data == [user |-> ctx.user,
                 description |-> comment,
                 sg_first_frame |-> 1,
                 frame_count |-> 1,
                 frame_range |-> "1-1",
                 sg_last_frame |-> 1,
                 entity |-> ctx.entity,
                 sg_path_to_frames |-> publish.code,
                 project |-> ctx.project,
                 sg_task |-> sg_task,
                 code |-> publish.code,
                 created_by |-> ctx.user]
    IN  IF entity_type = "PublishedFile"
        THEN data @@ [published_files |-> <<publish>>]
        ELSE data @@ [tank_published_file |-> publish]

\* the data dictionary of the Version entity
VersionData(path, publish) ==
    LET data == [user |-> ctx.user,
                 description |-> comment,
                 sg_first_frame |-> 1,
                 frame_count |-> 1,
                 frame_range |-> "1-1",
                 sg_last_frame |-> 1,
                 entity |-> ctx.entity,
                 sg_path_to_frames |-> path,
                 project |-> ctx.project,
                 sg_task |-> sg_task,
                 code |-> publish.code,
                 created_by |-> ctx.user]
    IN  IF entity_type = "PublishedFile"
        THEN data @@ [published_files |-> <<publish>>]
        ELSE data @@ [tank_published_file |-> publish]

\* faulty variant: the entry is appended whether or not there are errors
AppendResult_Always(res, task, errs) ==
    Append(res, [task |-> task, errors |-> errs])

\* if len(errors) > 0: results.append({"task":task, "errors":errors})
AppendResult(res, task, errs) ==
    IF Len(errs) > 0 THEN Append(res, [task |-> task, errors |-> errs])
                       ELSE res

\* the rest of a loop iteration once the task's errors are known:
\* collect the result, report 100, move to the next task
FinishTask(pcts, errs) ==
    /\ errors' = [errors EXCEPT ![idx] = errs]
    /\ results' = AppendResult(results, tasks[idx], errs)
    /\ progress' = Report(progress, idx, pcts \o <<100>>)
    /\ idx' = idx + 1
    /\ pc' = "loop"

\* locals of __send_to_review go out of scope
DropLocals ==
    /\ primary_publish' = <<>>
    /\ jpeg_path' = <<>>
    /\ version' = <<>>

\* os.remove(jpeg_path) inside try / except: pass
OsRemove ==
    \/ \* os.remove succeeds
       /\ jpeg_path \in disk
       /\ disk' = disk \ {jpeg_path}
       /\ calls' = Append(calls, Call("remove", jpeg_path, "ok", <<>>))
    \/ \* os.remove raises (no such file, or the file cannot be deleted)
       /\ disk' = disk
       /\ calls' = Append(calls, Call("remove", jpeg_path, "raise", <<>>))

\* ------------------------------------------------------------------ Init
Init ==
    /\ tasks \in TaskLists
    /\ primary_publish_path \in Paths
    /\ entity_type \in EntityTypes
    /\ pc = "loop"
    /\ idx = 1
    /\ errors = [i \in 1..Len(tasks) |-> <<>>]
    /\ results = <<>>
    /\ ret = <<>>
    /\ exc = "none"
    /\ primary_publish = <<>>
    /\ jpeg_path = <<>>
    /\ version = <<>>
    /\ uuids = 0
    /\ disk = {}
    /\ versions = <<>>
    /\ uploads = <<>>
    /\ calls = <<>>
    /\ progress = [i \in 1..Len(tasks) |-> <<>>]

\* --------------------------------------------------------------- actions

\* faulty variant: an unrecognized output is skipped without an error
PublishUnknown_SilentSkip ==
    /\ pc = "loop"
    /\ idx <= Len(tasks)
    /\ tasks[idx].output.name # "send_to_review"
    /\ FinishTask(<<0>>, <<>>)
    /\ UNCHANGED <<tasks, primary_publish_path, entity_type, ret, exc,
                   primary_publish, jpeg_path, version, uuids, disk, versions,
                   uploads, calls>>

\* execute, a task whose output is not "send_to_review": the whole iteration
PublishUnknown ==
    /\ pc = "loop"
    /\ idx <= Len(tasks)
    /\ tasks[idx].output.name # "send_to_review"
    /\ FinishTask(<<0>>, <<UnknownOutputMessage>>)
    /\ UNCHANGED <<tasks, primary_publish_path, entity_type, ret, exc,
                   primary_publish, jpeg_path, version, uuids, disk, versions,
                   uploads, calls>>

\* execute, a "send_to_review" task: progress 0, then __send_to_review up to
\* the outcome of tank.util.find_publish
FindPublish ==
    /\ pc = "loop"
    /\ idx <= Len(tasks)
    /\ tasks[idx].output.name = "send_to_review"
    /\ \/ \* find_publish raises: nothing guards it
          /\ calls' = Append(calls, Call("find_publish", primary_publish_path, "raise", <<>>))
          /\ progress' = Report(progress, idx, <<0, 10>>)
          /\ exc' = "find_publish"
          /\ pc' = "raised"
          /\ UNCHANGED <<idx, errors, results, primary_publish>>
       \/ \E found \in SUBSET {primary_publish_path} :
            LET found_publishes == [p \in found |-> PublishRecord(p)]
                publish == DictGet(found_publishes, primary_publish_path)
            IN  IF publish = <<>>
                THEN /\ calls' = Append(calls,
                            Call("find_publish", primary_publish_path, "missing", <<>>))
                     /\ FinishTask(<<0, 10>>, <<NotFoundMessage(primary_publish_path)>>)
                     /\ UNCHANGED <<exc, primary_publish>>
                ELSE /\ calls' = Append(calls,
                            Call("find_publish", primary_publish_path, "found", publish))
                     /\ progress' = Report(progress, idx, <<0, 10>>)
                     /\ primary_publish' = publish
                     /\ pc' = "saveAs"
                     /\ UNCHANGED <<idx, errors, results, exc>>
    /\ UNCHANGED <<tasks, primary_publish_path, entity_type, ret, jpeg_path,
                   version, uuids, disk, versions, uploads>>

\* __send_to_review: progress 20, the temp path, activeDocument.saveAs
SaveAs ==
    /\ pc = "saveAs"
    /\ LET path == JpegPath(uuids + 1)
       IN  /\ uuids' = uuids + 1
           /\ jpeg_path' = path
           /\ progress' = Report(progress, idx, <<20>>)
           /\ \/ /\ calls' = Append(calls, Call("saveAs",
                                [file |-> path, quality |-> JPEG_QUALITY], "ok", <<>>))
                 /\ disk' = disk \cup {path}
                 /\ pc' = "create"
                 /\ UNCHANGED exc
              \/ \* saveAs raises, having written the file or not
                 /\ calls' = Append(calls, Call("saveAs",
                                [file |-> path, quality |-> JPEG_QUALITY], "raise", <<>>))
                 /\ disk' \in {disk, disk \cup {path}}
                 /\ exc' = "saveAs"
                 /\ pc' = "finally"
    /\ UNCHANGED <<tasks, primary_publish_path, entity_type, idx, errors, results, ret,
                   primary_publish, version, versions, uploads>>

\* __send_to_review: the Version data, progress 50, shotgun.create
CreateVersion ==
    /\ pc = "create"
    /\ progress' = Report(progress, idx, <<50>>)
    /\ LET data == VersionData(primary_publish_path, primary_publish[1])
       IN  \/ LET created == [type |-> "Version", id |-> Len(versions) + 1,
                              data |-> data]
              IN  /\ calls' = Append(calls, Call("create", data, "ok", <<created>>))
                  /\ versions' = Append(versions, created)
                  /\ version' = <<created>>
                  /\ pc' = "upload"
                  /\ UNCHANGED exc
           \/ /\ calls' = Append(calls, Call("create", data, "raise", <<>>))
              /\ exc' = "create"
              /\ pc' = "finally"
              /\ UNCHANGED <<versions, version>>
    /\ UNCHANGED <<tasks, primary_publish_path, entity_type, idx, errors, results, ret,
                   primary_publish, jpeg_path, uuids, disk, uploads>>

\* faulty variant: the upload goes to the id of the publish, not of the new Version
UploadMovie_WrongId ==
    /\ pc = "upload"
    /\ progress' = Report(progress, idx, <<70>>)
    /\ LET up == [entity_type |-> "Version", id |-> primary_publish[1].id,
                  path |-> jpeg_path, field |-> "sg_uploaded_movie"]
       IN  \/ /\ calls' = Append(calls, Call("upload", up, "ok", <<>>))
              /\ uploads' = Append(uploads, up)
              /\ UNCHANGED exc
           \/ /\ calls' = Append(calls, Call("upload", up, "raise", <<>>))
              /\ exc' = "upload"
              /\ UNCHANGED uploads
    /\ pc' = "finally"
    /\ UNCHANGED <<tasks, primary_publish_path, entity_type, idx, errors, results, ret,
                   primary_publish, jpeg_path, version, uuids, disk, versions>>

\* __send_to_review: progress 70, shotgun.upload
UploadMovie ==
    /\ pc = "upload"
    /\ progress' = Report(progress, idx, <<70>>)
    /\ LET up == [entity_type |-> "Version", id |-> version[1].id,
                  path |-> jpeg_path, field |-> "sg_uploaded_movie"]
       IN  \/ /\ calls' = Append(calls, Call("upload", up, "ok", <<>>))
              /\ uploads' = Append(uploads, up)
              /\ UNCHANGED exc
           \/ /\ calls' = Append(calls, Call("upload", up, "raise", <<>>))
              /\ exc' = "upload"
              /\ UNCHANGED uploads
    /\ pc' = "finally"
    /\ UNCHANGED <<tasks, primary_publish_path, entity_type, idx, errors, results, ret,
                   primary_publish, jpeg_path, version, uuids, disk, versions>>

\* faulty variant: the cleanup is not in a finally block, it runs on success only
RemoveJpeg_NoFinally ==
    /\ pc = "finally"
    /\ IF exc # "none"
       THEN /\ pc' = "raised"
            /\ UNCHANGED <<idx, errors, results, progress, disk, calls>>
       ELSE /\ OsRemove
            /\ FinishTask(<<>>, <<>>)
    /\ DropLocals
    /\ UNCHANGED <<tasks, primary_publish_path, entity_type, ret, exc, uuids,
                   versions, uploads>>

\* faulty variant: a failure of os.remove is not swallowed, it replaces what was in flight
RemoveJpeg_Escalate ==
    /\ pc = "finally"
    /\ OsRemove
    /\ LET failed == calls'[Len(calls')].out = "raise"
       IN  /\ exc' = IF failed THEN "remove" ELSE exc
           /\ IF exc # "none" \/ failed
              THEN /\ pc' = "raised"
                   /\ UNCHANGED <<idx, errors, results, progress>>
              ELSE FinishTask(<<>>, <<>>)
    /\ DropLocals
    /\ UNCHANGED <<tasks, primary_publish_path, entity_type, ret, uuids,
                   versions, uploads>>

\* faulty variant: execute catches the exception and records it as the task's error
RemoveJpeg_Captured ==
    /\ pc = "finally"
    /\ OsRemove
    /\ IF exc # "none"
       THEN FinishTask(<<>>, <<exc>>)
       ELSE FinishTask(<<>>, <<>>)
    /\ exc' = "none"
    /\ DropLocals
    /\ UNCHANGED <<tasks, primary_publish_path, entity_type, ret, uuids,
                   versions, uploads>>

\* __send_to_review: the finally block (os.remove, its failure swallowed),
\* then either the exception in flight goes on through execute, or errors is
\* returned and execute finishes the iteration
RemoveJpeg ==
    /\ pc = "finally"
    /\ OsRemove
    /\ IF exc # "none"
       THEN /\ pc' = "raised"
            /\ UNCHANGED <<idx, errors, results, progress>>
       ELSE FinishTask(<<>>, <<>>)
    /\ DropLocals
    /\ UNCHANGED <<tasks, primary_publish_path, entity_type, ret, exc, uuids,
                   versions, uploads>>

\* execute: the loop is over, return results
Return ==
    /\ pc = "loop"
    /\ idx > Len(tasks)
    /\ ret' = <<results>>
    /\ pc' = "done"
    /\ UNCHANGED <<tasks, primary_publish_path, entity_type, idx, errors, results, exc,
                   primary_publish, jpeg_path, version, uuids, disk, versions,
                   uploads, calls, progress>>

Next ==
    \/ PublishUnknown
    \/ FindPublish
    \/ SaveAs
    \/ CreateVersion
    \/ UploadMovie
    \/ RemoveJpeg
    \/ Return

Spec == Init /\ [][Next]_vars

\* ------------------------------------------------- reading the call log

TaskIds == 1..Len(tasks)

\* the external calls made while handling task i, in order
CallsOf(i) == SelectSeq(calls, LAMBDA c : c.task = i)

\* task i made a call of op with outcome out
Made(i, op, out) ==
    \E k \in 1..Len(calls) :
        calls[k].task = i /\ calls[k].op = op /\ calls[k].out = out

Attempted(i, op) == \E out \in {"ok", "found", "missing", "raise"} : Made(i, op, out)

\* the step of the submission of task i that raised, "none" if none did
StepFailure(i) ==
    IF Made(i, "saveAs", "raise") THEN "saveAs"
    ELSE IF Made(i, "create", "raise") THEN "create"
    ELSE IF Made(i, "upload", "raise") THEN "upload"
    ELSE "none"

\* lookup, export, create and upload all succeeded for task i
FullySuccessful(i) ==
    /\ Made(i, "find_publish", "found")
    /\ Made(i, "saveAs", "ok")
    /\ Made(i, "create", "ok")
    /\ Made(i, "upload", "ok")

\* the handling of task i is over: its iteration finished, or it raised
Finished(i) == i < idx
Aborted(i) == i = idx /\ pc = "raised"
Ended(i) == Finished(i) \/ Aborted(i)

\* no send-to-review submission is running
Outside == pc \in {"loop", "done", "raised"}

\* the errors lists of the result entries of task i
EntriesFor(res, i) ==
    LET es == SelectSeq(res, LAMBDA r : r.task = tasks[i])
    IN  [k \in 1..Len(es) |-> es[k].errors]

\* the Version records created by the create calls of task i
VersionsOf(i) ==
    LET cs == SelectSeq(calls, LAMBDA c : c.task = i /\ c.op = "create" /\ c.out = "ok")
    IN  [k \in 1..Len(cs) |-> cs[k].val[1]]

Count(S) == Cardinality(S)

Last(s) == s[Len(s)]

NonDecreasing(s) == \A k \in 1..(Len(s) - 1) : s[k] <= s[k + 1]

\* ---------------------------------------------------------------- claims

\* C1: a failure of export, Version creation or upload in the submission of
\* task i is captured into the errors list of task i and not propagated, and
\* the tasks after i are still processed.
C1_FailureCaptured ==
    \A i \in TaskIds :
        (StepFailure(i) # "none" /\ pc # "finally")
            => /\ ~Aborted(i)
               /\ Finished(i)
               /\ Len(EntriesFor(results, i)) = 1
               /\ errors[i] # <<>>

\* C2 (as stated): once the send-to-review procedure has ended, on any exit
\* path, the temporary JPEG file does not exist on disk.
C2_TempFileNeverRemains == Outside => disk = {}

\* C2 (amended): once the procedure has ended, every exit path that attempted
\* the export has attempted the deletion of that same file exactly once, and a
\* temp file exists on disk only if its deletion was attempted and failed;
\* the paths that end before the export never create a file.
C2_TempFileRemovedUnlessDeleteFails ==
    Outside =>
        /\ \A i \in TaskIds :
              Ended(i) =>
                 /\ Attempted(i, "saveAs") =>
                       \E k \in 1..Len(calls) :
                          /\ calls[k].task = i /\ calls[k].op = "remove"
                          /\ \E j \in 1..(k - 1) :
                                /\ calls[j].task = i /\ calls[j].op = "saveAs"
                                /\ calls[j].arg.file = calls[k].arg
                          /\ calls[k].out = "ok" => calls[k].arg \notin disk
                 /\ ~Attempted(i, "saveAs") =>
                       \A k \in 1..Len(calls) :
                          calls[k].task = i => calls[k].op = "find_publish"
        /\ \A f \in disk :
              \E k \in 1..Len(calls) :
                  calls[k].op = "remove" /\ calls[k].arg = f /\ calls[k].out = "raise"

C2_Witness ==
    /\ pc = "raised"
    /\ exc = "upload"
    /\ disk # {}
    /\ Made(idx, "remove", "raise")

\* C3: a send_to_review task whose lookup returns no record gets exactly one
\* result entry, with the one error "Failed to find publish entity for
\* <primaryPublishPath>"; it makes no other external call (no export, no
\* create, no upload), leaves no temp file and no record, and the batch goes on.
C3_PublishNotFound ==
    \A i \in TaskIds :
        Made(i, "find_publish", "missing") =>
            /\ tasks[i].output.name = "send_to_review"
            /\ Len(CallsOf(i)) = 1
            /\ EntriesFor(results, i) =
                  << <<"Failed to find publish entity for " \o primary_publish_path>> >>
            /\ \A f \in disk : \E j \in TaskIds : j # i /\
                  \E k \in 1..Len(calls) : calls[k].task = j /\ calls[k].op = "saveAs"
                                           /\ calls[k].arg.file = f
            /\ Len(versions) = Count({k \in 1..Len(calls) :
                  calls[k].task # i /\ calls[k].op = "create" /\ calls[k].out = "ok"})
            /\ Len(uploads) = Count({k \in 1..Len(calls) :
                  calls[k].task # i /\ calls[k].op = "upload" /\ calls[k].out = "ok"})
            /\ Finished(i)
            /\ progress[i] = <<0, 10, 100>>

C3_Witness ==
    \E i \in TaskIds :
        /\ Made(i, "find_publish", "missing")
        /\ i + 1 \in TaskIds
        /\ Finished(i + 1)
        /\ Len(versions) > 0

\* C4 (as stated): a fully successful send_to_review task has no result entry
\* and exactly one Version record, with sg_path_to_frames = primaryPublishPath
\* and frame fields 1, 1, 1, "1-1"; when the batch is over, the number of
\* Version records equals the number of fully successful tasks.
C4_OneVersionPerSuccess ==
    /\ \A i \in TaskIds :
          (FullySuccessful(i) /\ Ended(i)) =>
             /\ EntriesFor(results, i) = <<>>
             /\ Len(VersionsOf(i)) = 1
             /\ \E k \in 1..Len(versions) : versions[k] = VersionsOf(i)[1]
             /\ LET d == VersionsOf(i)[1].data
                IN  /\ d.sg_path_to_frames = primary_publish_path
                    /\ d.sg_first_frame = 1
                    /\ d.sg_last_frame = 1
                    /\ d.frame_count = 1
                    /\ d.frame_range = "1-1"
    /\ pc \in {"done", "raised"} =>
          Len(versions) = Count({i \in TaskIds : FullySuccessful(i)})

\* C4 (amended): the same for each fully successful task; the number of
\* Version records equals the number of tasks whose create call succeeded,
\* which is the number of fully successful tasks when publish returns, and
\* one more than that when the batch was aborted by a failed upload.
C4_OneVersionPerCreate ==
    /\ \A i \in TaskIds :
          (FullySuccessful(i) /\ Ended(i)) =>
             /\ EntriesFor(results, i) = <<>>
             /\ Len(VersionsOf(i)) = 1
             /\ \E k \in 1..Len(versions) : versions[k] = VersionsOf(i)[1]
             /\ LET d == VersionsOf(i)[1].data
                IN  /\ d.sg_path_to_frames = primary_publish_path
                    /\ d.sg_first_frame = 1
                    /\ d.sg_last_frame = 1
                    /\ d.frame_count = 1
                    /\ d.frame_range = "1-1"
    /\ Len(versions) = Count({i \in TaskIds : Made(i, "create", "ok")})
    /\ pc = "done" =>
          Len(versions) = Count({i \in TaskIds : FullySuccessful(i)})
    /\ (pc = "raised" /\ exc = "upload") =>
          Len(versions) = Count({i \in TaskIds : FullySuccessful(i)}) + 1
    /\ (pc = "raised" /\ exc # "upload") =>
          Len(versions) = Count({i \in TaskIds : FullySuccessful(i)})

C4_Witness ==
    /\ pc = "done"
    /\ Len(versions) = 2
    /\ \E i \in TaskIds : FullySuccessful(i) /\ Made(i, "remove", "raise")

\* C5: a task whose output.name is not "send_to_review" gets exactly one
\* result entry, with the one error "Don't know how to publish this item!",
\* and handling it makes no lookup, export, create or upload.
C5_UnknownOutput ==
    \A i \in TaskIds :
        (tasks[i].output.name # "send_to_review") =>
            /\ CallsOf(i) = <<>>
            /\ Finished(i) =>
                  EntriesFor(results, i) = << <<"Don't know how to publish this item!">> >>
            /\ ~Finished(i) => EntriesFor(results, i) = <<>>
            /\ ~Aborted(i)

C5_Witness ==
    \E i \in TaskIds :
        /\ tasks[i].output.name # "send_to_review"
        /\ Finished(i)
        /\ calls # <<>>

\* C6: when publish returns, the returned list is exactly the tasks with a
\* non-empty errors list, in input order, one entry each; it is no longer
\* than the task list and empty when every task succeeded.
C6_ResultIsFailingTasksInOrder ==
    pc = "done" =>
        /\ Len(ret) = 1
        /\ LET res == ret[1]
           IN  /\ Len(res) <= Len(tasks)
               /\ \A k \in 1..Len(res) : \E i \in TaskIds : res[k].task = tasks[i]
               /\ \A a, b \in 1..Len(res) : a < b => res[a].task.item < res[b].task.item
               /\ \A i \in TaskIds :
                     /\ Len(EntriesFor(res, i)) <= 1
                     /\ (Len(EntriesFor(res, i)) = 1) <=> (errors[i] # <<>>)
                     /\ errors[i] # <<>> => EntriesFor(res, i)[1] = errors[i]
               /\ (\A i \in TaskIds : errors[i] = <<>>) => res = <<>>
               /\ (/\ Len(tasks) = 3
                   /\ tasks[1].output.name # "send_to_review"
                   /\ Made(2, "find_publish", "missing")
                   /\ FullySuccessful(3))
                      => /\ Len(res) = 2
                         /\ res[1].task = tasks[1]
                         /\ res[2].task = tasks[2]

C6_Witness ==
    /\ pc = "done"
    /\ Len(tasks) = 3
    /\ tasks[1].output.name # "send_to_review"
    /\ Made(2, "find_publish", "missing")
    /\ FullySuccessful(3)
    /\ Len(ret[1]) = 2

\* C7: for every task whose handling has ended, whatever its outcome, the
\* percentages reported start at 0, never decrease and end at 100, and 100
\* is reported exactly once, as the last report of the task.
C7_ProgressEndsAt100 ==
    \A i \in TaskIds :
        /\ NonDecreasing(progress[i])
        /\ progress[i] # <<>> => progress[i][1] = 0
        /\ Ended(i) =>
              /\ progress[i] # <<>>
              /\ Last(progress[i]) = 100
              /\ Count({k \in 1..Len(progress[i]) : progress[i][k] = 100}) = 1

\* C8: whether os.remove succeeds or raises, the submission ends the way the
\* steps before it decided: it returns an empty errors list when none of them
\* raised, and otherwise raises the failure of the step that raised; the
\* deletion failure adds no error, raises nothing and replaces nothing.
C8_DeleteFailureSwallowed ==
    /\ exc \in {"none", "find_publish", "saveAs", "create", "upload"}
    /\ \A i \in TaskIds :
          Attempted(i, "remove") =>
             IF StepFailure(i) = "none"
             THEN /\ Finished(i)
                  /\ errors[i] = <<>>
                  /\ EntriesFor(results, i) = <<>>
             ELSE /\ Aborted(i)
                  /\ exc = StepFailure(i)

C8_Witness ==
    /\ \E i \in TaskIds :
          Made(i, "remove", "raise") /\ StepFailure(i) = "none" /\ Finished(i)
    /\ \E i \in TaskIds :
          Made(i, "remove", "raise") /\ StepFailure(i) = "create" /\ Aborted(i)

\* C9: within one submission the external calls are lookup, export, create,
\* upload, delete in that order; export only after a lookup that found the
\* record, create only after a successful export, upload only after a
\* successful create and to the id create returned; the delete is made
\* exactly once, last, when the export was attempted and never otherwise.
C9_CallOrder ==
    \A i \in TaskIds :
        LET cs == CallsOf(i)
        IN  /\ \A k \in 1..Len(cs) :
                  /\ cs[k].op = "find_publish" => k = 1
                  /\ cs[k].op = "saveAs" =>
                        k = 2 /\ cs[1].op = "find_publish" /\ cs[1].out = "found"
                  /\ cs[k].op = "create" =>
                        k = 3 /\ cs[2].op = "saveAs" /\ cs[2].out = "ok"
                  /\ cs[k].op = "upload" =>
                        /\ k = 4 /\ cs[3].op = "create" /\ cs[3].out = "ok"
                        /\ cs[k].arg.id = cs[3].val[1].id
                        /\ cs[k].arg.path = cs[2].arg.file
                  /\ cs[k].op = "remove" =>
                        /\ k = Len(cs) /\ k > 2
                        /\ cs[2].op = "saveAs" /\ cs[k].arg = cs[2].arg.file
                        /\ \A j \in 2..(k - 2) : cs[j].out = "ok"
                        /\ (k < 5) => cs[k - 1].out = "raise"
            /\ (Ended(i) /\ Attempted(i, "saveAs")) => Attempted(i, "remove")
            /\ (Len(cs) > 0 /\ pc \in {"loop", "done"}) => Ended(i)

C9_Witness ==
    \E i \in TaskIds :
        /\ Len(CallsOf(i)) = 5
        /\ CallsOf(i)[4].arg.id # i
        /\ Ended(i)

\* C10: a failure of export, create or upload in task i goes out of publish
\* as a raised error and ends the batch: no later task gets a progress call
\* or a side effect, nothing is returned (the entries collected before i are
\* lost to the caller), and the Version record created before a failed
\* upload stays in Shotgun.
C10_FailureAbortsBatch ==
    \A i \in TaskIds :
        StepFailure(i) # "none" =>
            /\ idx = i
            /\ pc \in {"finally", "raised"}
            /\ pc = "raised" => exc = StepFailure(i)
            /\ ret = <<>>
            /\ \A j \in TaskIds :
                  j > i => progress[j] = <<>> /\ CallsOf(j) = <<>> /\ errors[j] = <<>>
            /\ \A k \in 1..Len(results) : results[k].task.item < i
            /\ StepFailure(i) = "upload" =>
                  /\ Len(VersionsOf(i)) = 1
                  /\ versions # <<>>
                  /\ Last(versions) = VersionsOf(i)[1]
            /\ Len(uploads) = Count({j \in TaskIds : j < i /\ FullySuccessful(j)})

C10_Witness ==
    /\ pc = "raised"
    /\ exc = "upload"
    /\ results # <<>>
    /\ idx < Len(tasks)

====
